---- MODULE Spec2Model ----
(***************************************************************************)
(* Model of scripts/extract_pdf.py: the page pipeline                      *)
(* (extract_pdf_with_layout), the formula aggregator (mark_formulas), the  *)
(* native table formatter (format_table_as_markers) and the heuristic      *)
(* table aggregator (detect_table_structure).                              *)
(*                                                                         *)
(* A text is a sequence of characters; a character is a one-element        *)
(* string.  A code point outside ASCII is written by its code point name.  *)
(***************************************************************************)
EXTENDS Integers, Sequences, FiniteSets, TLC

VARIABLES
    doc,                \* the opened document: a sequence of pages
    pc,                 \* position in the program
    page_num,           \* index of the current page, 0-based as in enumerate
    page_tables,        \* extract_tables_with_pymupdf(page)
    image_map,          \* dict center_y -> img_info, in insertion order
    sorted_blocks,      \* blocks of the page sorted by top edge
    bi,                 \* number of blocks of sorted_blocks already processed
    image_counter,      \* the figure id counter
    images,             \* result["images"]
    text_with_images,   \* result["text_with_images"]
    extract_calls,      \* log of the calls doc.extract_image / open(...).write
    calls,              \* the post-processing calls still to make
    returned,           \* the texts returned by the post-processing calls so far
    lines,              \* text.split('\n') of the running pass
    i,                  \* loop index of the running pass, 0-based
    result,             \* result list of the running pass
    formula_buffer,     \* mark_formulas' buffer
    table_buffer,       \* detect_table_structure's buffer
    in_potential_table  \* detect_table_structure's flag

vars == <<doc, pc, page_num, page_tables, image_map, sorted_blocks, bi,
          image_counter, images, text_with_images, extract_calls, calls,
          returned, lines, i, result, formula_buffer, table_buffer,
          in_potential_table>>

----------------------------------------------------------------------------
(* Characters *)

NL == "\n"
MATH_N == "U+1D441"     \* math italic capital N
MATH_I == "U+1D456"     \* math italic small i
SUM == "U+2211"         \* n-ary summation
CJK_QI == "U+5176"      \* first character of the connective particle
CJK_ZHONG == "U+4E2D"   \* second character of the connective particle
CJK_DI == "U+7B2C"      \* the chapter glyph
CJK_STOP == "U+3002"    \* ideographic full stop
CJK_COLON == "U+FF1A"   \* fullwidth colon
CJK_SEMI == "U+FF1B"    \* fullwidth semicolon
CJK_COMMA == "U+3001"   \* ideographic comma
BULLET == "U+2022"
EN_DASH == "U+2013"

DIGITS == {"0", "1", "2", "3", "4", "5", "6", "7", "8", "9"}

ASCII_LETTERS ==
    {"a", "b", "c", "d", "e", "f", "g", "h", "i", "j", "k", "l", "m",
     "n", "o", "p", "q", "r", "s", "t", "u", "v", "w", "x", "y", "z",
     "A", "B", "C", "D", "E", "F", "G", "H", "I", "J", "K", "L", "M",
     "N", "O", "P", "Q", "R", "S", "T", "U", "V", "W", "X", "Y", "Z"}

\* str.strip / str.split / \s
WHITESPACE == {" ", "\t", NL}

\* the code points of UNICODE_MATH_CHARS that occur in the model's texts
UNICODE_MATH_CHARS == {MATH_N, MATH_I, SUM}

\* the code points of the ranges of [math italic a-z, math italic A-Z]
MATH_ITALIC_LETTERS == {MATH_N, MATH_I}

\* the code points of the range U+4E00..U+9FA5
CJK_IDEOGRAPHS == {CJK_QI, CJK_ZHONG, CJK_DI}

\* \w on str patterns: the Unicode alphanumerics and the underscore
WORD_CHARS == ASCII_LETTERS \cup DIGITS \cup {"_"} \cup MATH_ITALIC_LETTERS
                \cup CJK_IDEOGRAPHS

----------------------------------------------------------------------------
(* Strings *)

Min(S) == CHOOSE x \in S : \A y \in S : x <= y
Max(S) == CHOOSE x \in S : \A y \in S : x >= y

AllIn(s, C) == \A k \in 1..Len(s) : s[k] \in C

\* str.strip()
strip(s) ==
    LET keep == {k \in 1..Len(s) : s[k] \notin WHITESPACE}
    IN  IF keep = {} THEN <<>> ELSE SubSeq(s, Min(keep), Max(keep))

\* str.startswith(p)
startswith(s, p) == Len(s) >= Len(p) /\ SubSeq(s, 1, Len(p)) = p

\* str.endswith(p)
endswith(s, p) == Len(s) >= Len(p) /\ SubSeq(s, Len(s) - Len(p) + 1, Len(s)) = p

\* p in s
contains(s, p) ==
    \E k \in 0..(Len(s) - Len(p)) : SubSeq(s, k + 1, k + Len(p)) = p

\* text.split('\n')
RECURSIVE split_nl(_)
split_nl(t) ==
    LET at == {k \in 1..Len(t) : t[k] = NL}
    IN  IF at = {} THEN <<t>>
        ELSE <<SubSeq(t, 1, Min(at) - 1)>>
                \o split_nl(SubSeq(t, Min(at) + 1, Len(t)))

\* sep.join(parts)
RECURSIVE join(_, _)
join(sep, parts) ==
    IF parts = <<>> THEN <<>>
    ELSE IF Len(parts) = 1 THEN parts[1]
    ELSE parts[1] \o sep \o join(sep, Tail(parts))

\* str.split(): the maximal runs of non-whitespace, in order
RECURSIVE split_ws(_)
split_ws(s) ==
    LET t == strip(s)
        ws == {k \in 1..Len(t) : t[k] \in WHITESPACE}
    IN  IF t = <<>> THEN <<>>
        ELSE IF ws = {} THEN <<t>>
        ELSE <<SubSeq(t, 1, Min(ws) - 1)>>
                \o split_ws(SubSeq(t, Min(ws) + 1, Len(t)))

\* str(n) of a natural number
RECURSIVE str_int(_)
str_int(n) ==
    LET d == <<"0", "1", "2", "3", "4", "5", "6", "7", "8", "9">>
    IN  IF n < 10 THEN <<d[n + 1]>>
        ELSE str_int(n \div 10) \o <<d[(n % 10) + 1]>>

\* the elements of xs at the indices of idx, in order
RECURSIVE PickFrom(_, _, _)
PickFrom(xs, idx, k) ==
    IF k > Len(xs) THEN <<>>
    ELSE (IF k \in idx THEN <<xs[k]>> ELSE <<>>) \o PickFrom(xs, idx, k + 1)

\* [x for x in xs if keep(x)]
SelectList(xs, keep(_)) == PickFrom(xs, {k \in 1..Len(xs) : keep(xs[k])}, 1)

\* [f(x) for x in xs]
MapList(xs, f(_)) == [k \in 1..Len(xs) |-> f(xs[k])]

\* the concatenation of a list of lists
RECURSIVE Flatten(_)
Flatten(xss) == IF xss = <<>> THEN <<>> ELSE xss[1] \o Flatten(Tail(xss))

----------------------------------------------------------------------------
(* Marker vocabulary *)

TABLE_START == <<"[", "T", "A", "B", "L", "E", "_", "S", "T", "A", "R", "T", "]">>
TABLE_END == <<"[", "T", "A", "B", "L", "E", "_", "E", "N", "D", "]">>
TABLE_ROW_OPEN == <<"[", "T", "A", "B", "L", "E", "_", "R", "O", "W", ":">>
TABLE_CELL_OPEN == <<"[", "T", "A", "B", "L", "E", "_", "C", "E", "L", "L", ":", " ">>
FORMULA_OPEN == <<"[", "F", "O", "R", "M", "U", "L", "A", ":", " ">>
FORMULA_CLOSE == <<" ", ":", "E", "N", "D", "_", "F", "O", "R", "M", "U", "L", "A", "]">>
FORMULA_BLOCK_OPEN ==
    <<"[", "F", "O", "R", "M", "U", "L", "A", "_", "B", "L", "O", "C", "K", ":", " ">>
FORMULA_BLOCK_CLOSE ==
    <<" ", ":", "E", "N", "D", "_", "F", "O", "R", "M", "U", "L", "A", "_",
      "B", "L", "O", "C", "K", "]">>
FIGURE_OPEN == <<"[", "F", "I", "G", "U", "R", "E", ":">>
EXTRACTION_FAILED_CLOSE ==
    <<":", "e", "x", "t", "r", "a", "c", "t", "i", "o", "n", "_",
      "f", "a", "i", "l", "e", "d", "]">>
NO_XREF_CLOSE == <<":", "n", "o", "_", "x", "r", "e", "f", "]">>
PDFIMG == <<"p", "d", "f", "i", "m", "g">>

----------------------------------------------------------------------------
(* Line classifier, formula variant *)

\* the strong operator set of has_math_symbol: the code points of it that
\* occur in the model's texts
STRONG_MATH_SYMBOLS == {SUM, "="}

ShortMathLen == 10
SignificantMath == 2

math_count(stripped) ==
    Cardinality({k \in 1..Len(stripped) : stripped[k] \in UNICODE_MATH_CHARS})

is_formula_line(line) ==
    LET stripped == strip(line)
        has_math_symbol == \E k \in 1..Len(stripped) : stripped[k] \in STRONG_MATH_SYMBOLS
        has_significant_math == math_count(stripped) >= SignificantMath
        is_short_math == Len(stripped) <= ShortMathLen /\ math_count(stripped) >= 1
        is_formula_part ==
            /\ Len(stripped) >= 2
            /\ stripped[1] \in MATH_ITALIC_LETTERS \cup ASCII_LETTERS
            /\ stripped[2] = "="
        is_subscript_part ==
            /\ Len(stripped) >= 3
            /\ stripped[1] \in {MATH_I, "i", "j", "k"}
            /\ stripped[2] = "="
            /\ stripped[3] \in DIGITS
    IN  IF stripped = <<>> THEN FALSE
        ELSE has_math_symbol \/ has_significant_math \/ is_short_math
                \/ is_formula_part \/ is_subscript_part

\* the continuation test of mark_formulas
CONNECTIVE == <<CJK_QI, CJK_ZHONG>>

is_continuation_line(line) ==
    LET stripped == strip(line)
    IN  /\ startswith(stripped, CONNECTIVE)
        /\ \E k \in 1..Len(stripped) : stripped[k] \in UNICODE_MATH_CHARS

\* flush_formula_buffer joining the lines of a block as they are
flush_formula_buffer_untrimmed(buffer) ==
    IF buffer = <<>> THEN <<>>
    ELSE IF Len(buffer) = 1
        THEN << FORMULA_OPEN \o strip(buffer[1]) \o FORMULA_CLOSE >>
    ELSE LET nonblank(l) == strip(l) # <<>>
             content == join(<<" ">>, SelectList(buffer, nonblank))
         IN  << FORMULA_BLOCK_OPEN \o content \o FORMULA_BLOCK_CLOSE >>

\* the lines flush_formula_buffer appends to result
flush_formula_buffer(buffer) ==
    IF buffer = <<>> THEN <<>>
    ELSE IF Len(buffer) = 1
        THEN << FORMULA_OPEN \o strip(buffer[1]) \o FORMULA_CLOSE >>
    ELSE LET nonblank(l) == strip(l) # <<>>
             content == join(<<" ">>, MapList(SelectList(buffer, nonblank), strip))
         IN  << FORMULA_BLOCK_OPEN \o content \o FORMULA_BLOCK_CLOSE >>

----------------------------------------------------------------------------
(* Native tables *)

\* cell and cell.strip(): None is modelled by the empty text
cell_nonempty(cell) == strip(cell) # <<>>

row_nonempty(row) == \E k \in 1..Len(row) : cell_nonempty(row[k])

MinNativeRows == 2

\* extract_tables_with_pymupdf counting the rows before the empty ones are
\* dropped, and keeping them
extract_tables_keep_empty_rows(page) ==
    IF page.find_tables_raises THEN <<>>
    ELSE LET kept(t) == [bbox |-> t.bbox,
                         rows |-> t.cell_data,
                         col_count |-> t.col_count]
             accepted(t) == Len(kept(t).rows) >= MinNativeRows
         IN  MapList(SelectList(page.tables, accepted), kept)

\* page.find_tables() raises, or gives the grids of table.extract()
extract_tables_with_pymupdf(page) ==
    IF page.find_tables_raises THEN <<>>
    ELSE LET kept(t) == [bbox |-> t.bbox,
                         rows |-> SelectList(t.cell_data, row_nonempty),
                         col_count |-> t.col_count]
             accepted(t) == Len(kept(t).rows) >= MinNativeRows
         IN  MapList(SelectList(page.tables, accepted), kept)

\* cell.replace('\n', ' ')
newlines_to_spaces(cell) ==
    [k \in 1..Len(cell) |-> IF cell[k] = NL THEN " " ELSE cell[k]]

format_cell(cell) ==
    LET cell_text == strip(newlines_to_spaces(cell))
    IN  IF cell_text # <<>> THEN TABLE_CELL_OPEN \o cell_text \o <<"]">>
        ELSE TABLE_CELL_OPEN \o <<"]">>

\* format_table_lines with no line for a cell without text
format_table_lines_skip_empty(table_data) ==
    LET row_lines(row_idx) ==
            << TABLE_ROW_OPEN \o str_int(row_idx - 1) \o <<"]">> >>
                \o MapList(SelectList(table_data.rows[row_idx], cell_nonempty), format_cell)
    IN  <<TABLE_START>>
            \o Flatten([r \in 1..Len(table_data.rows) |-> row_lines(r)])
            \o <<TABLE_END>>

\* the list `lines` of format_table_as_markers
format_table_lines(table_data) ==
    LET row_lines(row_idx) ==
            << TABLE_ROW_OPEN \o str_int(row_idx - 1) \o <<"]">> >>
                \o MapList(table_data.rows[row_idx], format_cell)
    IN  <<TABLE_START>>
            \o Flatten([r \in 1..Len(table_data.rows) |-> row_lines(r)])
            \o <<TABLE_END>>

format_table_as_markers(table_data) == join(<<NL>>, format_table_lines(table_data))

----------------------------------------------------------------------------
(* Line classifier, table-cell variant *)

MaxCellLen == 100
MaxNameLen == 15
MaxLabelLen == 10
MaxPhraseTail == 40
MaxCjkLen == 20
MinListItemText == 5

\* [\d,.\-+%]
NUMERIC_CHARS == DIGITS \cup {",", ".", "-", "+", "%"}

\* [\d,.]
DECIMAL_CHARS == DIGITS \cup {",", "."}

\* re.match(r'^[\d,.\-+%]+$', s)
is_numeric_entry(s) == s # <<>> /\ AllIn(s, NUMERIC_CHARS)

\* re.match(r'^[\d,.]+$', s)
is_decimal_entry(s) == s # <<>> /\ AllIn(s, DECIMAL_CHARS)

\* re.match(r'^[\d]+\.\d+\s+.+$', s): digits s[1..a], the dot, digits
\* s[a+2..b], whitespace s[b+1..c], then one character or more
is_section_header(s) ==
    \E a \in 1..Len(s) :
        /\ AllIn(SubSeq(s, 1, a), DIGITS)
        /\ a + 1 <= Len(s)
        /\ s[a + 1] = "."
        /\ \E b \in (a + 2)..Len(s) :
            /\ AllIn(SubSeq(s, a + 2, b), DIGITS)
            /\ \E c \in (b + 1)..(Len(s) - 1) :
                /\ AllIn(SubSeq(s, b + 1, c), WHITESPACE)
                /\ NL \notin {s[k] : k \in (c + 1)..Len(s)}

\* re.match(r'^[\d]+[.<ideographic comma>]\s+.{5,}', s): digits s[1..a], the
\* separator, whitespace s[a+2..c], then five characters or more
is_list_item(s) ==
    \E a \in 1..Len(s) :
        /\ AllIn(SubSeq(s, 1, a), DIGITS)
        /\ a + 1 <= Len(s)
        /\ s[a + 1] \in {".", CJK_COMMA}
        /\ \E c \in (a + 2)..(Len(s) - MinListItemText) :
            /\ AllIn(SubSeq(s, a + 2, c), WHITESPACE)
            /\ NL \notin {s[k] : k \in (c + 1)..(c + MinListItemText)}

is_table_cell_candidate(line) ==
    LET stripped == strip(line)
        n == Len(stripped)
    IN  IF stripped = <<>> \/ n > MaxCellLen THEN FALSE
        ELSE IF is_section_header(stripped) \/ stripped[1] = CJK_DI THEN FALSE
        ELSE IF is_list_item(stripped) \/ stripped[1] \in {BULLET, EN_DASH} THEN FALSE
        ELSE IF is_numeric_entry(stripped) /\ n >= 1 THEN TRUE
        ELSE IF /\ n >= 2 /\ stripped[1] \in ASCII_LETTERS
                /\ AllIn(Tail(stripped), WORD_CHARS \cup {"-"})
                /\ n <= MaxNameLen THEN TRUE
        ELSE IF n <= MaxLabelLen
                /\ stripped[n] \notin {CJK_STOP, CJK_COLON, CJK_SEMI} THEN TRUE
        ELSE IF /\ stripped[1] \in ASCII_LETTERS
                /\ n - 1 <= MaxPhraseTail
                /\ AllIn(Tail(stripped), ASCII_LETTERS \cup WHITESPACE \cup {"-"})
             THEN TRUE
        ELSE IF n <= MaxCjkLen /\ stripped[1] \in CJK_IDEOGRAPHS THEN TRUE
        ELSE IF /\ n >= 2 /\ stripped[n] = "%"
                /\ is_decimal_entry(SubSeq(stripped, 1, n - 1)) THEN TRUE
        ELSE FALSE

MinSequenceLen == 4

\* looks_like_table_sequence asking for a numeric line
looks_like_table_sequence_numeric(buffer) ==
    IF Len(buffer) < MinSequenceLen THEN FALSE
    ELSE LET num_count ==
                Cardinality({k \in 1..Len(buffer) : is_numeric_entry(strip(buffer[k]))})
         IN  num_count >= 1

looks_like_table_sequence(buffer) ==
    IF Len(buffer) < MinSequenceLen THEN FALSE
    ELSE LET num_count ==
                Cardinality({k \in 1..Len(buffer) : is_numeric_entry(strip(buffer[k]))})
         IN  num_count >= 1 \/ Len(buffer) >= MinSequenceLen

MinColumns == 3

\* looks_like_multi_col_row of the loop of detect_table_structure
looks_like_multi_col_row(stripped) ==
    LET parts == split_ws(stripped)
        has_numbers == \E k \in 1..Len(parts) : is_decimal_entry(parts[k])
    IN  Len(parts) >= MinColumns /\ has_numbers

MinTableRows == 2

\* the condition of the if of a non-matching line with a buffer of 2 or more
accepts_on_line(buffer) ==
    \/ looks_like_table_sequence(buffer)
    \/ \E k \in 1..Len(buffer) : is_decimal_entry(strip(buffer[k]))

\* the condition of the if of the remaining buffer
accepts_at_end(buffer) ==
    Len(buffer) >= MinTableRows /\ looks_like_table_sequence(buffer)

\* the lines a buffer is emitted as when it is accepted as a table
table_block(buffer) ==
    <<TABLE_START>> \o [k \in 1..Len(buffer) |-> TABLE_CELL_OPEN \o buffer[k] \o <<"]">>]
        \o <<TABLE_END>>

----------------------------------------------------------------------------
(* Block/Image merger *)

Tolerance == 50

\* twice (bbox[1] + bbox[3]) / 2: the centres are compared in half units
center_y2(bbox) == bbox[2] + bbox[4]

\* the dict image_map after img_info_list: a repeated key keeps its place
\* and takes the later value
RECURSIVE build_image_map(_, _)
build_image_map(map, infos) ==
    IF infos = <<>> THEN map
    ELSE LET c == center_y2(infos[1].bbox)
             at == {k \in 1..Len(map) : map[k].center_y2 = c}
             entry == [center_y2 |-> c, img_info |-> infos[1]]
         IN  build_image_map(
                IF at = {} THEN Append(map, entry)
                ELSE [map EXCEPT ![Min(at)] = entry],
                Tail(infos))

\* sorted_by_top taking the last of the blocks with the same top edge first
RECURSIVE sorted_by_top_unstable(_)
sorted_by_top_unstable(xs) ==
    IF xs = <<>> THEN <<>>
    ELSE LET top == Min({xs[k].bbox[2] : k \in 1..Len(xs)})
             first == Max({k \in 1..Len(xs) : xs[k].bbox[2] = top})
         IN  <<xs[first]>>
                \o sorted_by_top_unstable(SubSeq(xs, 1, first - 1) \o SubSeq(xs, first + 1, Len(xs)))

\* sorted(xs, key=lambda b: b["bbox"][1]): stable
RECURSIVE sorted_by_top(_)
sorted_by_top(xs) ==
    IF xs = <<>> THEN <<>>
    ELSE LET top == Min({xs[k].bbox[2] : k \in 1..Len(xs)})
             first == Min({k \in 1..Len(xs) : xs[k].bbox[2] = top})
         IN  <<xs[first]>>
                \o sorted_by_top(SubSeq(xs, 1, first - 1) \o SubSeq(xs, first + 1, Len(xs)))

abs(x) == IF x < 0 THEN -x ELSE x

\* match_image with a descriptor at exactly the tolerance taken as a match
RECURSIVE match_image_inclusive(_, _, _)
match_image_inclusive(map, block_center_y2, best) ==
    IF map = <<>> THEN best
    ELSE LET distance2 == abs(map[1].center_y2 - block_center_y2)
             closer == (best = <<>> \/ distance2 < best[1])
                        /\ distance2 <= 2 * Tolerance
         IN  match_image_inclusive(Tail(map), block_center_y2,
                         IF closer THEN <<distance2, map[1].img_info>> ELSE best)

\* the loop over image_map.items(): best is <<>> (matched_img None,
\* min_distance infinite) or <<min_distance doubled, matched_img>>
RECURSIVE match_image(_, _, _)
match_image(map, block_center_y2, best) ==
    IF map = <<>> THEN best
    ELSE LET distance2 == abs(map[1].center_y2 - block_center_y2)
             closer == (best = <<>> \/ distance2 < best[1])
                        /\ distance2 < 2 * Tolerance
         IN  match_image(Tail(map), block_center_y2,
                         IF closer THEN <<distance2, map[1].img_info>> ELSE best)

\* the text a text block appends
RECURSIVE block_text(_)
block_text(block_lines) ==
    IF block_lines = <<>> THEN <<>>
    ELSE Flatten(block_lines[1]) \o <<NL>> \o block_text(Tail(block_lines))

img_id(counter) == PDFIMG \o str_int(counter)

EXT == <<"p", "n", "g">>

\* figure_marker without the newline after the marker
figure_marker_open_ended(id) == <<NL>> \o FIGURE_OPEN \o id \o <<"]">>

figure_marker(id) == <<NL>> \o FIGURE_OPEN \o id \o <<"]">> \o <<NL>>
failed_marker(id) == <<NL>> \o FIGURE_OPEN \o id \o EXTRACTION_FAILED_CLOSE \o <<NL>>
no_xref_marker(id) == <<NL>> \o FIGURE_OPEN \o id \o NO_XREF_CLOSE \o <<NL>>

\* the text the loop over the sorted native tables appends
RECURSIVE tables_text(_)
tables_text(tables) ==
    IF tables = <<>> THEN <<>>
    ELSE <<NL>> \o format_table_as_markers(tables[1]) \o <<NL>>
            \o tables_text(Tail(tables))

PAGE_SEPARATOR == <<NL, NL>>

\* what doc.extract_image and the write of the bytes can do
Outcomes == {"ok", "extract_raises", "write_raises"}

----------------------------------------------------------------------------
(* Inputs *)

MaxPages == 2
MaxFormulaLines == 4
MaxTableLines == 5

L_EQUATION == <<MATH_N, "=", "1">>
L_SYMBOL == <<" ", MATH_N, " ">>
L_WHERE == <<CJK_QI, CJK_ZHONG, MATH_N, " ", "i", "s", " ", "s", "i", "z", "e">>
L_PROSE == <<"P", "r", "o", "s", "e", " ", "t", "e", "x", "t", ".">>
L_BLANK == <<>>
L_NAME == <<" ", "A", "B">>
L_NUMBER == <<"9", "2", ".", "3">>
L_PERCENT == <<"5", "0", "%">>
L_ROW == <<"a", " ", "1", " ", "b">>
L_IDENTITY == <<"1", " ", "=", " ", "2">>
L_WIDE_ROW == <<"a", "b", "c", " ", "1", ".", "5", " ", "d", "e", "f", "g", "h">>
L_EXAMPLE == <<MATH_N, " ", "=", " ", "1", "0">>

FormulaPool == {L_EQUATION, L_EXAMPLE, L_SYMBOL, L_WHERE, L_PROSE, L_BLANK}
TablePool == {L_NAME, L_NUMBER, L_PERCENT, L_ROW, L_WIDE_ROW, L_PROSE}

ListsOver(pool, n) == UNION {[1..k -> pool] : k \in 1..n}

TextBlock(y0, y1, block_lines) ==
    [type |-> 0, bbox |-> <<0, y0, 100, y1>>, lines |-> block_lines]
ImageBlock(y0, y1) ==
    [type |-> 1, bbox |-> <<0, y0, 100, y1>>, lines |-> <<>>]
Info(y0, y1, xref) == [bbox |-> <<0, y0, 100, y1>>, xref |-> xref]
Grid(y0, cell_data) ==
    [bbox |-> <<0, y0, 100, y0 + 50>>, cell_data |-> cell_data,
     col_count |-> Len(cell_data[1])]

\* a formula line next to a numeric line, a line of two spans
PageText ==
    [blocks |-> << TextBlock(100, 160, << <<L_IDENTITY>>, <<L_NUMBER>>,
                                          << <<"P", "r", "o", "s", "e", " ">>, <<"t", "e", "x", "t", ".">> >> >>) >>,
     image_info |-> <<>>, tables |-> <<>>, find_tables_raises |-> FALSE]

\* blocks out of order, two of them with the same top edge; one descriptor
\* within reach of two image blocks; an image block whose centre is exactly
\* the tolerance away from it
PageImages ==
    [blocks |-> << ImageBlock(130, 170), ImageBlock(80, 120),
                   TextBlock(80, 90, << <<L_PROSE>> >>), ImageBlock(90, 130) >>,
     image_info |-> << Info(80, 120, 7) >>,
     tables |-> <<>>, find_tables_raises |-> FALSE]

\* a native table with a row of four cells of a value and a unit
PageUnits ==
    [blocks |-> << TextBlock(50, 60, << <<L_NAME>> >>) >>,
     image_info |-> <<>>,
     tables |-> << Grid(300, << << <<"1", " ", "m">>, <<"2", " ", "m">>, <<"3", " ", "m">>, <<"4", " ", "m">> >>,
                               << <<"a">>, <<>>, <<>>, <<>> >> >>) >>,
     find_tables_raises |-> FALSE]

\* native tables out of order: one with a formula cell and an empty row,
\* one with a single non-empty row, one of two rows
PageGrids ==
    [blocks |-> <<>>,
     image_info |-> <<>>,
     tables |-> << Grid(500, << << <<"x", "=", "1">>, <<"b">> >>, << <<>>, <<" ">> >>,
                               << <<"c">>, <<"d", NL, "e">> >> >>),
                   Grid(200, << << <<"a">> >>, << <<>> >> >>),
                   Grid(300, << << <<"a">> >>, << <<"b">> >> >>) >>,
     find_tables_raises |-> FALSE]

\* the nearest descriptor has no xref and a farther one in reach has one;
\* table detection raises; the page ends in two cell lines
PageInline ==
    [blocks |-> << ImageBlock(80, 120),
                   TextBlock(200, 220, << <<L_NAME>>, <<L_NUMBER>> >>) >>,
     image_info |-> << Info(80, 120, 0), Info(100, 140, 9) >>,
     tables |-> << Grid(300, << << <<"a">> >>, << <<"b">> >> >>) >>,
     find_tables_raises |-> TRUE]

PagePool == {PageText, PageImages, PageUnits, PageGrids, PageInline}

Docs == ListsOver(PagePool, MaxPages)

----------------------------------------------------------------------------
(* Initial states *)

Idle ==
    /\ page_num = 0
    /\ page_tables = <<>>
    /\ image_map = <<>>
    /\ sorted_blocks = <<>>
    /\ bi = 0
    /\ image_counter = 0
    /\ images = <<>>
    /\ extract_calls = <<>>
    /\ returned = <<>>
    /\ lines = <<>>
    /\ i = 0
    /\ result = <<>>
    /\ formula_buffer = <<>>
    /\ table_buffer = <<>>
    /\ in_potential_table = FALSE

\* extract_pdf_with_layout(pdf_path, output_dir) up to the page loop
Init ==
    /\ doc \in Docs
    /\ pc = "page"
    /\ text_with_images = <<>>
    /\ calls = <<"mark_formulas", "detect_table_structure">>
    /\ Idle

\* mark_formulas applied to a text, and again to what it returns
InitFormula ==
    /\ doc = <<>>
    /\ pc = "post"
    /\ text_with_images \in {join(<<NL>>, ls) : ls \in ListsOver(FormulaPool, MaxFormulaLines)}
    /\ calls = <<"mark_formulas", "mark_formulas">>
    /\ Idle

\* detect_table_structure applied to a text
InitTable ==
    /\ doc = <<>>
    /\ pc = "post"
    /\ text_with_images \in {join(<<NL>>, ls) : ls \in ListsOver(TablePool, MaxTableLines)}
    /\ calls = <<"detect_table_structure">>
    /\ Idle

----------------------------------------------------------------------------
(* The page loop of extract_pdf_with_layout *)

merge_vars == <<page_num, page_tables, image_map, sorted_blocks, bi,
                image_counter, images, extract_calls>>
pass_vars == <<lines, i, result, formula_buffer, table_buffer, in_potential_table>>

\* StartPage with the figure id counter set back at every page
StartPage_CounterPerPage ==
    /\ pc = "page"
    /\ page_num < Len(doc)
    /\ LET page == doc[page_num + 1]
       IN  /\ page_tables' = extract_tables_with_pymupdf(page)
           /\ image_map' = build_image_map(<<>>, page.image_info)
           /\ sorted_blocks' = sorted_by_top(page.blocks)
    /\ bi' = 0
    /\ image_counter' = 0
    /\ pc' = "blocks"
    /\ UNCHANGED <<doc, page_num, images, text_with_images,
                   extract_calls, calls, returned, lines, i, result,
                   formula_buffer, table_buffer, in_potential_table>>

\* the head of the page loop, up to the sorted blocks
StartPage ==
    /\ pc = "page"
    /\ page_num < Len(doc)
    /\ LET page == doc[page_num + 1]
       IN  /\ page_tables' = extract_tables_with_pymupdf(page)
           /\ image_map' = build_image_map(<<>>, page.image_info)
           /\ sorted_blocks' = sorted_by_top(page.blocks)
    /\ bi' = 0
    /\ pc' = "blocks"
    /\ UNCHANGED <<doc, page_num, image_counter, images, text_with_images,
                   extract_calls, calls, returned>>
    /\ UNCHANGED pass_vars

\* a text block
AppendTextBlock ==
    /\ pc = "blocks"
    /\ bi < Len(sorted_blocks)
    /\ sorted_blocks[bi + 1].type = 0
    /\ text_with_images' = text_with_images \o block_text(sorted_blocks[bi + 1].lines)
    /\ bi' = bi + 1
    /\ UNCHANGED <<doc, pc, page_num, page_tables, image_map, sorted_blocks,
                   image_counter, images, extract_calls, calls, returned>>
    /\ UNCHANGED pass_vars

\* extract_and_save without the except clause: the exception leaves the
\* function
extract_and_save_uncaught(outcome, id, bbox, page, imgs, text) ==
    IF outcome = "ok"
    THEN [images |-> Append(imgs, [id |-> id,
                                   filename |-> id \o <<".">> \o EXT,
                                   page |-> page,
                                   bbox |-> bbox]),
          text |-> text \o figure_marker(id),
          pc |-> "blocks"]
    ELSE [images |-> imgs, text |-> text, pc |-> "raised"]

\* extract_and_save with the write outside the try block: a failure of the
\* write leaves the function
extract_and_save_write_fatal(outcome, id, bbox, page, imgs, text) ==
    IF outcome = "ok"
    THEN [images |-> Append(imgs, [id |-> id,
                                   filename |-> id \o <<".">> \o EXT,
                                   page |-> page,
                                   bbox |-> bbox]),
          text |-> text \o figure_marker(id),
          pc |-> "blocks"]
    ELSE IF outcome = "extract_raises"
    THEN [images |-> imgs,
          text |-> text \o failed_marker(id),
          pc |-> "blocks"]
    ELSE [images |-> imgs, text |-> text, pc |-> "raised"]

\* extract_and_save with the record appended before the bytes are written:
\* a failure of the write leaves the record behind
extract_and_save_record_first(outcome, id, bbox, page, imgs, text) ==
    LET record == [id |-> id, filename |-> id \o <<".">> \o EXT,
                   page |-> page, bbox |-> bbox]
    IN  IF outcome = "ok"
        THEN [images |-> Append(imgs, record),
              text |-> text \o figure_marker(id),
              pc |-> "blocks"]
        ELSE [images |-> IF outcome = "write_raises" THEN Append(imgs, record) ELSE imgs,
              text |-> text \o failed_marker(id),
              pc |-> "blocks"]

\* the try block of an image block and its except clause: the record list,
\* the text and the position they leave
extract_and_save(outcome, id, bbox, page, imgs, text) ==
    IF outcome = "ok"
    THEN [images |-> Append(imgs, [id |-> id,
                                   filename |-> id \o <<".">> \o EXT,
                                   page |-> page,
                                   bbox |-> bbox]),
          text |-> text \o figure_marker(id),
          pc |-> "blocks"]
    ELSE [images |-> imgs,
          text |-> text \o failed_marker(id),
          pc |-> "blocks"]

\* an image block; outcome is what the extraction and the write do
ProcessImageBlock ==
    /\ pc = "blocks"
    /\ bi < Len(sorted_blocks)
    /\ sorted_blocks[bi + 1].type = 1
    /\ \E outcome \in Outcomes :
        LET bbox == sorted_blocks[bi + 1].bbox
            counter == image_counter + 1
            id == img_id(counter)
            best == match_image(image_map, center_y2(bbox), <<>>)
            matched == best # <<>> /\ best[2].xref > 0
            saved == extract_and_save(outcome, id, bbox, page_num + 1,
                                      images, text_with_images)
        IN  /\ image_counter' = counter
            /\ IF matched
               THEN /\ extract_calls' =
                        Append(extract_calls,
                               [page |-> page_num + 1, xref |-> best[2].xref,
                                id |-> id, outcome |-> outcome])
                    /\ images' = saved.images
                    /\ text_with_images' = saved.text
                    /\ pc' = saved.pc
               ELSE /\ extract_calls' = extract_calls
                    /\ images' = images
                    /\ text_with_images' = text_with_images \o no_xref_marker(id)
                    /\ pc' = pc
    /\ bi' = bi + 1
    /\ UNCHANGED <<doc, page_num, page_tables, image_map, sorted_blocks,
                   calls, returned>>
    /\ UNCHANGED pass_vars

\* AppendNativeTables without the sort: the tables in the order found
AppendNativeTables_Unsorted ==
    /\ pc = "blocks"
    /\ bi = Len(sorted_blocks)
    /\ text_with_images' = text_with_images \o tables_text(page_tables)
    /\ pc' = "separator"
    /\ UNCHANGED <<doc, calls, returned>>
    /\ UNCHANGED merge_vars
    /\ UNCHANGED pass_vars

\* the native tables of the page, after its blocks
AppendNativeTables ==
    /\ pc = "blocks"
    /\ bi = Len(sorted_blocks)
    /\ text_with_images' = text_with_images \o tables_text(sorted_by_top(page_tables))
    /\ pc' = "separator"
    /\ UNCHANGED <<doc, calls, returned>>
    /\ UNCHANGED merge_vars
    /\ UNCHANGED pass_vars

\* AddPageSeparator without the test for the last page
AddPageSeparator_AfterEveryPage ==
    /\ pc = "separator"
    /\ text_with_images' = text_with_images \o PAGE_SEPARATOR
    /\ page_num' = page_num + 1
    /\ pc' = IF page_num + 1 < Len(doc) THEN "page" ELSE "post"
    /\ UNCHANGED <<doc, page_tables, image_map, sorted_blocks, bi, image_counter,
                   images, extract_calls, calls, returned>>
    /\ UNCHANGED pass_vars

\* the page separator and the step to the next page, or out of the loop
AddPageSeparator ==
    /\ pc = "separator"
    /\ text_with_images' =
        IF page_num < Len(doc) - 1 THEN text_with_images \o PAGE_SEPARATOR
        ELSE text_with_images
    /\ page_num' = page_num + 1
    /\ pc' = IF page_num + 1 < Len(doc) THEN "page" ELSE "post"
    /\ UNCHANGED <<doc, page_tables, image_map, sorted_blocks, bi, image_counter,
                   images, extract_calls, calls, returned>>
    /\ UNCHANGED pass_vars

----------------------------------------------------------------------------
(* mark_formulas *)

CallMarkFormulas ==
    /\ pc = "post"
    /\ calls # <<>>
    /\ Head(calls) = "mark_formulas"
    /\ calls' = Tail(calls)
    /\ lines' = split_nl(text_with_images)
    /\ result' = <<>>
    /\ formula_buffer' = <<>>
    /\ i' = 0
    /\ pc' = "mark_formulas"
    /\ UNCHANGED <<doc, text_with_images, returned, table_buffer, in_potential_table>>
    /\ UNCHANGED merge_vars

\* MarkFormulasLine with the current line appended before the flush
MarkFormulasLine_LineFirst ==
    /\ pc = "mark_formulas"
    /\ i < Len(lines)
    /\ LET line == lines[i + 1]
       IN  IF is_formula_line(line)
           THEN /\ formula_buffer' = Append(formula_buffer, line)
                /\ result' = result
           ELSE IF formula_buffer # <<>> /\ is_continuation_line(line)
           THEN /\ formula_buffer' = Append(formula_buffer, line)
                /\ result' = result
           ELSE /\ result' = result \o <<line>> \o flush_formula_buffer(formula_buffer)
                /\ formula_buffer' = <<>>
    /\ i' = i + 1
    /\ UNCHANGED <<doc, pc, text_with_images, calls, returned, lines,
                   table_buffer, in_potential_table>>
    /\ UNCHANGED merge_vars

\* MarkFormulasLine without the test for a buffer: a continuation line is
\* buffered wherever it stands
MarkFormulasLine_AlwaysAbsorb ==
    /\ pc = "mark_formulas"
    /\ i < Len(lines)
    /\ LET line == lines[i + 1]
       IN  IF is_formula_line(line)
           THEN /\ formula_buffer' = Append(formula_buffer, line)
                /\ result' = result
           ELSE IF is_continuation_line(line)
           THEN /\ formula_buffer' = Append(formula_buffer, line)
                /\ result' = result
           ELSE /\ result' = result \o flush_formula_buffer(formula_buffer) \o <<line>>
                /\ formula_buffer' = <<>>
    /\ i' = i + 1
    /\ UNCHANGED <<doc, pc, text_with_images, calls, returned, lines,
                   table_buffer, in_potential_table>>
    /\ UNCHANGED merge_vars

\* MarkFormulasLine with a continuation line taken out of the text and not
\* put into the buffer
MarkFormulasLine_DropsContinuation ==
    /\ pc = "mark_formulas"
    /\ i < Len(lines)
    /\ LET line == lines[i + 1]
       IN  IF is_formula_line(line)
           THEN /\ formula_buffer' = Append(formula_buffer, line)
                /\ result' = result
           ELSE IF formula_buffer # <<>> /\ is_continuation_line(line)
           THEN /\ formula_buffer' = formula_buffer
                /\ result' = result
           ELSE /\ result' = result \o flush_formula_buffer(formula_buffer) \o <<line>>
                /\ formula_buffer' = <<>>
    /\ i' = i + 1
    /\ UNCHANGED <<doc, pc, text_with_images, calls, returned, lines,
                   table_buffer, in_potential_table>>
    /\ UNCHANGED merge_vars

\* one iteration of the loop over the lines
MarkFormulasLine ==
    /\ pc = "mark_formulas"
    /\ i < Len(lines)
    /\ LET line == lines[i + 1]
       IN  IF is_formula_line(line)
           THEN /\ formula_buffer' = Append(formula_buffer, line)
                /\ result' = result
           ELSE IF formula_buffer # <<>> /\ is_continuation_line(line)
           THEN /\ formula_buffer' = Append(formula_buffer, line)
                /\ result' = result
           ELSE /\ result' = result \o flush_formula_buffer(formula_buffer) \o <<line>>
                /\ formula_buffer' = <<>>
    /\ i' = i + 1
    /\ UNCHANGED <<doc, pc, text_with_images, calls, returned, lines,
                   table_buffer, in_potential_table>>
    /\ UNCHANGED merge_vars

\* MarkFormulasReturn without the flush after the loop
MarkFormulasReturn_NoFlush ==
    /\ pc = "mark_formulas"
    /\ i = Len(lines)
    /\ result' = result
    /\ formula_buffer' = <<>>
    /\ text_with_images' = join(<<NL>>, result')
    /\ returned' = Append(returned, text_with_images')
    /\ pc' = IF calls = <<>> THEN "done" ELSE "post"
    /\ UNCHANGED <<doc, calls, lines, i, table_buffer, in_potential_table>>
    /\ UNCHANGED merge_vars

\* the flush after the loop and the return
MarkFormulasReturn ==
    /\ pc = "mark_formulas"
    /\ i = Len(lines)
    /\ result' = result \o flush_formula_buffer(formula_buffer)
    /\ formula_buffer' = <<>>
    /\ text_with_images' = join(<<NL>>, result')
    /\ returned' = Append(returned, text_with_images')
    /\ pc' = IF calls = <<>> THEN "done" ELSE "post"
    /\ UNCHANGED <<doc, calls, lines, i, table_buffer, in_potential_table>>
    /\ UNCHANGED merge_vars

----------------------------------------------------------------------------
(* detect_table_structure *)

CallDetectTableStructure ==
    /\ pc = "post"
    /\ calls # <<>>
    /\ Head(calls) = "detect_table_structure"
    /\ calls' = Tail(calls)
    /\ lines' = split_nl(text_with_images)
    /\ result' = <<>>
    /\ table_buffer' = <<>>
    /\ in_potential_table' = FALSE
    /\ i' = 0
    /\ pc' = "detect_table_structure"
    /\ UNCHANGED <<doc, text_with_images, returned, formula_buffer>>
    /\ UNCHANGED merge_vars

\* flush_on_line without the acceptance test: a buffer is always a table
flush_on_line_always(in_table, buffer) ==
    IF in_table THEN table_block(buffer) ELSE buffer

\* the lines the else branch emits for the buffer
flush_on_line(in_table, buffer) ==
    IF in_table /\ Len(buffer) >= MinTableRows
    THEN (IF accepts_on_line(buffer) THEN table_block(buffer) ELSE buffer)
    ELSE buffer

\* the lines the code after the loop emits for the buffer
flush_at_end(buffer) ==
    IF accepts_at_end(buffer) THEN table_block(buffer) ELSE buffer

\* DetectTableLine without the look at the next line: a cell candidate
\* starts a buffer wherever it stands
DetectTableLine_NoLookAhead ==
    /\ pc = "detect_table_structure"
    /\ i < Len(lines)
    /\ LET line == lines[i + 1]
           stripped == strip(line)
           looks_like_single_cell == is_table_cell_candidate(stripped)
       IN  IF looks_like_multi_col_row(stripped) \/ looks_like_single_cell
           THEN /\ in_potential_table' = TRUE
                /\ table_buffer' = Append(table_buffer, stripped)
                /\ result' = result
           ELSE /\ result' = result \o flush_on_line(in_potential_table, table_buffer)
                                \o <<line>>
                /\ table_buffer' = <<>>
                /\ in_potential_table' = FALSE
    /\ i' = i + 1
    /\ UNCHANGED <<doc, pc, text_with_images, calls, returned, lines, formula_buffer>>
    /\ UNCHANGED merge_vars

\* DetectTableLine with the flag set back only where a buffer of 2 or more
\* lines is flushed
DetectTableLine_FlagKept ==
    /\ pc = "detect_table_structure"
    /\ i < Len(lines)
    /\ LET line == lines[i + 1]
           stripped == strip(line)
           looks_like_single_cell == is_table_cell_candidate(stripped)
       IN  IF looks_like_multi_col_row(stripped)
           THEN /\ in_potential_table' = TRUE
                /\ table_buffer' = Append(table_buffer, stripped)
                /\ result' = result
           ELSE IF looks_like_single_cell /\ (in_potential_table \/ Len(table_buffer) > 0)
           THEN /\ in_potential_table' = TRUE
                /\ table_buffer' = Append(table_buffer, stripped)
                /\ result' = result
           ELSE IF /\ looks_like_single_cell
                   /\ i + 1 < Len(lines)
                   /\ is_table_cell_candidate(lines[i + 2])
           THEN /\ in_potential_table' = TRUE
                /\ table_buffer' = Append(table_buffer, stripped)
                /\ result' = result
           ELSE /\ result' = result \o flush_on_line(in_potential_table, table_buffer)
                                \o <<line>>
                /\ table_buffer' = <<>>
                /\ in_potential_table' =
                    (in_potential_table /\ Len(table_buffer) < MinTableRows)
    /\ i' = i + 1
    /\ UNCHANGED <<doc, pc, text_with_images, calls, returned, lines, formula_buffer>>
    /\ UNCHANGED merge_vars

\* one iteration of the loop over the lines
DetectTableLine ==
    /\ pc = "detect_table_structure"
    /\ i < Len(lines)
    /\ LET line == lines[i + 1]
           stripped == strip(line)
           looks_like_single_cell == is_table_cell_candidate(stripped)
       IN  IF looks_like_multi_col_row(stripped)
           THEN /\ in_potential_table' = TRUE
                /\ table_buffer' = Append(table_buffer, stripped)
                /\ result' = result
           ELSE IF looks_like_single_cell /\ (in_potential_table \/ Len(table_buffer) > 0)
           THEN /\ in_potential_table' = TRUE
                /\ table_buffer' = Append(table_buffer, stripped)
                /\ result' = result
           ELSE IF /\ looks_like_single_cell
                   /\ i + 1 < Len(lines)
                   /\ is_table_cell_candidate(lines[i + 2])
           THEN /\ in_potential_table' = TRUE
                /\ table_buffer' = Append(table_buffer, stripped)
                /\ result' = result
           ELSE /\ result' = result \o flush_on_line(in_potential_table, table_buffer)
                                \o <<line>>
                /\ table_buffer' = <<>>
                /\ in_potential_table' = FALSE
    /\ i' = i + 1
    /\ UNCHANGED <<doc, pc, text_with_images, calls, returned, lines, formula_buffer>>
    /\ UNCHANGED merge_vars

\* the remaining buffer and the return
DetectTableReturn ==
    /\ pc = "detect_table_structure"
    /\ i = Len(lines)
    /\ result' = result \o flush_at_end(table_buffer)
    /\ text_with_images' = join(<<NL>>, result')
    /\ returned' = Append(returned, text_with_images')
    /\ pc' = IF calls = <<>> THEN "done" ELSE "post"
    /\ UNCHANGED <<doc, calls, lines, i, formula_buffer, table_buffer, in_potential_table>>
    /\ UNCHANGED merge_vars

----------------------------------------------------------------------------
(* Specifications *)

Next ==
    \/ StartPage
    \/ AppendTextBlock
    \/ ProcessImageBlock
    \/ AppendNativeTables
    \/ AddPageSeparator
    \/ CallMarkFormulas
    \/ MarkFormulasLine
    \/ MarkFormulasReturn
    \/ CallDetectTableStructure
    \/ DetectTableLine
    \/ DetectTableReturn

Spec == Init /\ [][Next]_vars

NextFormula == CallMarkFormulas \/ MarkFormulasLine \/ MarkFormulasReturn

SpecFormula == InitFormula /\ [][NextFormula]_vars

NextTable == CallDetectTableStructure \/ DetectTableLine \/ DetectTableReturn

SpecTable == InitTable /\ [][NextTable]_vars

----------------------------------------------------------------------------
(* Properties *)

FinalLines == split_nl(text_with_images)

\* scanning ls from line k with `open` table spans open: no TABLE_START
\* inside a span, no TABLE_END outside one, no span left open
RECURSIVE balanced_from(_, _, _)
balanced_from(ls, k, open) ==
    IF k > Len(ls) THEN ~open
    ELSE IF ls[k] = TABLE_START THEN ~open /\ balanced_from(ls, k + 1, TRUE)
    ELSE IF ls[k] = TABLE_END THEN open /\ balanced_from(ls, k + 1, FALSE)
    ELSE balanced_from(ls, k + 1, open)

\* C1: in the final text_with_images the table markers are balanced: every
\* [TABLE_START] is followed by exactly one [TABLE_END] before the next
\* [TABLE_START], and no [TABLE_END] occurs without an open [TABLE_START].
C1_TableMarkersBalanced ==
    pc = "done" => balanced_from(FinalLines, 1, FALSE)

FORMULA_TOKEN == <<"[", "F", "O", "R", "M", "U", "L", "A">>
TABLE_TOKEN == <<"[", "T", "A", "B", "L", "E", "_">>

\* line k of ls lies strictly between a [TABLE_START] and the next [TABLE_END]
in_table_span(ls, k) ==
    /\ ls[k] # TABLE_START
    /\ ls[k] # TABLE_END
    /\ \E s \in 1..(k - 1) :
        /\ ls[s] = TABLE_START
        /\ \A j \in (s + 1)..(k - 1) : ls[j] # TABLE_END

\* C2: in the final text_with_images markers are never nested across kinds:
\* a table span holds only [TABLE_ROW:i] and [TABLE_CELL: ...] lines, none of
\* which contains a formula marker, and no formula marker contains a table
\* token.
C2_MarkersNotNested ==
    pc = "done" =>
        \A k \in 1..Len(FinalLines) :
            LET l == FinalLines[k]
            IN  /\ in_table_span(FinalLines, k) =>
                    /\ startswith(l, TABLE_ROW_OPEN) \/ startswith(l, TABLE_CELL_OPEN)
                    /\ ~contains(l, FORMULA_TOKEN)
                /\ startswith(l, FORMULA_TOKEN) => ~contains(l, TABLE_TOKEN)

\* C3: mark_formulas is idempotent: applied to its own output it returns
\* that output unchanged.
C3_MarkFormulasIdempotent ==
    (pc = "done" /\ Len(returned) = 2) => returned[2] = returned[1]

\* the figure ids of the marker lines of a text, in order
figure_id(l) ==
    LET rest == SubSeq(l, Len(FIGURE_OPEN) + 1, Len(l))
        stop == Min({k \in 1..Len(rest) : rest[k] \in {":", "]"}})
    IN  SubSeq(rest, 1, stop - 1)

is_figure_line(l) == startswith(l, FIGURE_OPEN) /\ l[Len(l)] = "]"

figure_ids(text) == MapList(SelectList(split_nl(text), is_figure_line), figure_id)

is_image_block(b) == b.type = 1

\* the image blocks of the pages before the current one and of the blocks of
\* the current page that are done
image_blocks_done ==
    LET pages_done == IF pc \in {"page", "blocks"} THEN page_num
                      ELSE IF pc = "separator" THEN page_num + 1
                      ELSE Len(doc)
        of_page(n) == Len(SelectList(doc[n].blocks, is_image_block))
        RECURSIVE sum_to(_)
        sum_to(n) == IF n = 0 THEN 0 ELSE of_page(n) + sum_to(n - 1)
    IN  sum_to(pages_done)
            + (IF pc = "blocks"
               THEN Len(SelectList(SubSeq(sorted_blocks, 1, bi), is_image_block))
               ELSE 0)

\* C4: figure ids are unique and strictly increasing over the whole document:
\* the i-th image block processed receives pdfimg<i>, i from 1, the counter is
\* not reset between pages, and the ids of the images list strictly increase,
\* also when images fail extraction or have no match.
C4_FigureIdsIncrease ==
    (pc \in {"page", "blocks", "separator", "post"} /\ returned = <<>>) =>
        /\ image_counter = image_blocks_done
        /\ figure_ids(text_with_images) = [k \in 1..image_counter |-> img_id(k)]
        /\ \A k \in 1..Len(images) :
            \E n \in 1..image_counter :
                /\ images[k].id = img_id(n)
                /\ k > 1 => \E m \in 1..(n - 1) : images[k - 1].id = img_id(m)

\* two pages with images, a figure that failed and one without a match
C4_Witness ==
    /\ pc = "post"
    /\ returned = <<>>
    /\ Len(doc) = 2
    /\ image_counter >= 4
    /\ Len(images) >= 2
    /\ images[Len(images)].page = 2
    /\ \E k \in 1..Len(extract_calls) : extract_calls[k].outcome # "ok"
    /\ Len(extract_calls) < image_counter

\* C5: at end of stream the remaining buffer is emitted as a table if and
\* only if the same buffer would be emitted as a table on a non-matching line.
C5_SameRuleAtEnd ==
    (pc = "detect_table_structure" /\ i = Len(lines)) =>
        (flush_at_end(table_buffer) = table_block(table_buffer)
            <=> flush_on_line(in_potential_table, table_buffer) = table_block(table_buffer))

\* C6: on a non-matching line a buffer of 2 or more lines is accepted as a
\* table if and only if it holds a purely numeric line (digits, comma, dot,
\* dash, plus, percent) or at least 4 lines; an accepted buffer is emitted as
\* [TABLE_START], one [TABLE_CELL: <line>] per line in order, [TABLE_END],
\* followed by the non-matching line.
C6_AcceptanceOnLine ==
    [][(/\ pc = "detect_table_structure"
        /\ i < Len(lines)
        /\ i' = i + 1
        /\ Len(table_buffer) >= 2
        /\ table_buffer' = <<>>)
       => LET accepted ==
                \/ \E k \in 1..Len(table_buffer) : is_numeric_entry(table_buffer[k])
                \/ Len(table_buffer) >= 4
          IN  result' = result
                    \o (IF accepted THEN table_block(table_buffer) ELSE table_buffer)
                    \o <<lines[i + 1]>>]_vars

\* the number of [TABLE_CELL lines between line s of ls and the next
\* [TABLE_END]
cells_of_span(ls, s) ==
    LET ends == {e \in (s + 1)..Len(ls) : ls[e] = TABLE_END}
        last == IF ends = {} THEN Len(ls) ELSE Min(ends)
    IN  Cardinality({k \in (s + 1)..last : startswith(ls[k], TABLE_CELL_OPEN)})

\* C7: a buffer of exactly 1 line is never emitted as a table: every
\* [TABLE_START]...[TABLE_END] span detect_table_structure emits holds at
\* least 2 [TABLE_CELL lines, on a non-matching line and at end of stream.
C7_NoOneLineTable ==
    \A s \in 1..Len(result) :
        result[s] = TABLE_START => cells_of_span(result, s) >= 2

is_buffered_line(l) ==
    looks_like_multi_col_row(strip(l)) \/ is_table_cell_candidate(l)

\* a run that emitted a table and flushed a buffer of one line: a row line
\* with no buffered line before or after it
C7_Witness ==
    /\ pc = "done"
    /\ \E s \in 1..Len(result) : result[s] = TABLE_START
    /\ \E k \in 1..Len(lines) :
        /\ looks_like_multi_col_row(strip(lines[k]))
        /\ k > 1 => ~is_buffered_line(lines[k - 1])
        /\ k < Len(lines) => ~is_buffered_line(lines[k + 1])

\* the marker blocks format_table_as_markers produces for the document
native_blocks ==
    { format_table_lines(t) :
        t \in UNION { {extract_tables_with_pymupdf(doc[n])[k] :
                        k \in 1..Len(extract_tables_with_pymupdf(doc[n]))} :
                      n \in 1..Len(doc) } }

occurs_in(block, ls) ==
    \E k \in 0..(Len(ls) - Len(block)) : SubSeq(ls, k + 1, k + Len(block)) = block

\* C8: native tables bypass the heuristic table aggregator: no line of a
\* block of format_table_as_markers is ever placed in the buffer of
\* detect_table_structure, and each native block is in the final output as
\* formatted.
C8_NativeTablesBypass ==
    /\ \A k \in 1..Len(table_buffer) :
        \A b \in native_blocks : \A j \in 1..Len(b) : table_buffer[k] # b[j]
    /\ pc = "done" => \A b \in native_blocks : occurs_in(b, FinalLines)

\* C9: within a page each image descriptor is matched to at most one image
\* block: no two extractions of a page are from the same descriptor.
C9_DescriptorMatchedOnce ==
    \A a, b \in 1..Len(extract_calls) :
        (a # b /\ extract_calls[a].page = extract_calls[b].page)
            => extract_calls[a].xref # extract_calls[b].xref

total_image_blocks ==
    LET RECURSIVE sum_to(_)
        sum_to(n) == IF n = 0 THEN 0
                     ELSE Len(SelectList(doc[n].blocks, is_image_block)) + sum_to(n - 1)
    IN  sum_to(Len(doc))

\* C10: when byte extraction raises for a matched image block, exactly one
\* [FIGURE:<id>:extraction_failed] marker is appended and no record is added;
\* the counter, the block loop and the page state are left as an extraction
\* that succeeds leaves them, so the later blocks and pages are processed the
\* same; every block of every page is done before the post-processing starts.
C10_FailureContained ==
    /\ [][Len(extract_calls') = Len(extract_calls) + 1
          => /\ image_counter' = image_counter + 1
             /\ bi' = bi + 1
             /\ pc' = "blocks"
             /\ UNCHANGED <<doc, page_num, page_tables, image_map, sorted_blocks, calls>>
             /\ extract_calls'[Len(extract_calls')].outcome = "extract_raises"
                => /\ text_with_images' =
                        text_with_images \o failed_marker(img_id(image_counter + 1))
                   /\ images' = images]_vars
    /\ [](pc \in {"post", "mark_formulas", "detect_table_structure", "done"}
            => /\ page_num = Len(doc)
               /\ image_counter = total_image_blocks)

\* the first figure of a two-page document failed, a later figure of the page
\* and one of the next page were extracted, and the run finished
C10_Witness ==
    /\ pc = "done"
    /\ Len(doc) = 2
    /\ Len(extract_calls) >= 3
    /\ extract_calls[1].outcome = "extract_raises"
    /\ extract_calls[2].outcome = "ok"
    /\ \E k \in 1..Len(images) : images[k].page = 2
    /\ \E k \in 1..Len(FinalLines) :
        FinalLines[k] = FIGURE_OPEN \o img_id(1) \o EXTRACTION_FAILED_CLOSE

\* the extraction ended by this step, if the step is one
extraction_step(outcome) ==
    /\ Len(extract_calls') = Len(extract_calls) + 1
    /\ extract_calls'[Len(extract_calls')].outcome = outcome

\* C11 as stated: a failure of the write of an extracted image's bytes is
\* fatal: extract_pdf_with_layout raises instead of returning, and no figure
\* marker is emitted for the failure.
C11_WriteFailureFatal ==
    [][extraction_step("write_raises")
          => /\ pc' = "raised"
             /\ text_with_images' = text_with_images]_vars

\* C11 amended: a failure of the write of an extracted image's bytes is
\* caught like a failure of the extraction: the step appends
\* [FIGURE:<id>:extraction_failed], adds no record and goes on with the next
\* block; extract_pdf_with_layout never raises because of it.
C11_WriteFailureContained ==
    /\ [][extraction_step("write_raises")
            => /\ text_with_images' =
                    text_with_images \o failed_marker(img_id(image_counter + 1))
               /\ images' = images
               /\ pc' = "blocks"
               /\ bi' = bi + 1]_vars
    /\ [](pc # "raised")

\* a run that returned after a write failed: the figure has the failure
\* marker and no record, a later figure has a record
C11_Witness ==
    /\ pc = "done"
    /\ \E k \in 1..Len(extract_calls) :
        /\ extract_calls[k].outcome = "write_raises"
        /\ \A r \in 1..Len(images) : images[r].id # extract_calls[k].id
        /\ \E j \in 1..Len(FinalLines) :
            FinalLines[j] = FIGURE_OPEN \o extract_calls[k].id \o EXTRACTION_FAILED_CLOSE
        /\ \E m \in (k + 1)..Len(extract_calls) : extract_calls[m].outcome = "ok"

\* the block the page loop is at is an image block
at_image_block ==
    /\ pc = "blocks"
    /\ bi < Len(sorted_blocks)
    /\ sorted_blocks[bi + 1].type = 1

\* the descriptors of the current page whose centre is less than the
\* tolerance away from the centre of the block
descriptors_in_reach(block) ==
    LET infos == doc[page_num + 1].image_info
    IN  {k \in 1..Len(infos) :
            abs(center_y2(infos[k].bbox) - center_y2(block.bbox)) < 2 * Tolerance}

\* C12: an image block with no descriptor of the page within 50 units of its
\* vertical centre emits [FIGURE:pdfimg<N>:no_xref], adds no record and
\* attempts no extraction; the id N is still consumed.
C12_NoDescriptorInReach ==
    [][(/\ at_image_block
        /\ descriptors_in_reach(sorted_blocks[bi + 1]) = {}
        /\ bi' = bi + 1)
       => /\ text_with_images' =
               text_with_images \o no_xref_marker(img_id(image_counter + 1))
          /\ images' = images
          /\ extract_calls' = extract_calls
          /\ image_counter' = image_counter + 1]_vars

\* the block exactly the tolerance away from the only descriptor of its page
\* was done after two blocks that were matched: it has the third id and the
\* no_xref marker, and left the records and the extractions as they were
C12_Witness ==
    /\ pc = "blocks"
    /\ bi = Len(sorted_blocks)
    /\ bi > 0
    /\ sorted_blocks[bi].type = 1
    /\ descriptors_in_reach(sorted_blocks[bi]) = {}
    /\ \E k \in 1..Len(doc[page_num + 1].image_info) :
        abs(center_y2(doc[page_num + 1].image_info[k].bbox)
                - center_y2(sorted_blocks[bi].bbox)) = 2 * Tolerance
    /\ image_counter = 3
    /\ Len(extract_calls) = 2
    /\ endswith(text_with_images, no_xref_marker(img_id(3)))

\* C13: [FIGURE:<id>:no_xref] is emitted only when no descriptor qualifies:
\* an image block with a descriptor of the page within 50 units of its centre
\* that has an xref is matched, its extraction is attempted, and it emits
\* [FIGURE:<id>] when the extraction and the write succeed; it is not given
\* the no_xref marker because a nearer descriptor has no xref.
C13_NoXrefOnlyWithoutUsable ==
    [][(/\ at_image_block
        /\ \E k \in descriptors_in_reach(sorted_blocks[bi + 1]) :
                doc[page_num + 1].image_info[k].xref > 0
        /\ bi' = bi + 1)
       => /\ text_with_images' #
               text_with_images \o no_xref_marker(img_id(image_counter + 1))
          /\ Len(extract_calls') = Len(extract_calls) + 1
          /\ extract_calls'[Len(extract_calls')].outcome = "ok"
                => text_with_images' =
                        text_with_images \o figure_marker(img_id(image_counter + 1))]_vars

\* a line [FIGURE:<id>] with nothing after the id
is_success_line(l) ==
    /\ is_figure_line(l)
    /\ \A k \in (Len(FIGURE_OPEN) + 1)..Len(l) : l[k] # ":"

\* the ids of the success markers of a text, in order
success_ids(text) == MapList(SelectList(split_nl(text), is_success_line), figure_id)

call_succeeded(call) == call.outcome = "ok"
id_of(rec) == rec.id

\* C14: a record exists for an id if and only if [FIGURE:<id>] was emitted
\* for it: between the steps of the page loop, between the passes and in the
\* result, the ids of the images list are the ids of the success markers of
\* the text, in the order of the markers, and are the ids of the blocks that
\* were matched and whose bytes were extracted and written; a step appends to
\* the list or leaves it, and never changes or removes a record.
C14_RecordIffSuccessMarker ==
    /\ [](pc \in {"page", "blocks", "separator", "post", "done"}
            => /\ MapList(images, id_of) = success_ids(text_with_images)
               /\ MapList(images, id_of) =
                    MapList(SelectList(extract_calls, call_succeeded), id_of))
    /\ [][/\ Len(images') >= Len(images)
           /\ SubSeq(images', 1, Len(images)) = images]_vars

\* a finished run with two records around a figure whose write failed, and
\* a figure without a match
C14_Witness ==
    /\ pc = "done"
    /\ Len(extract_calls) >= 3
    /\ extract_calls[1].outcome = "ok"
    /\ extract_calls[2].outcome = "write_raises"
    /\ extract_calls[3].outcome = "ok"
    /\ Len(extract_calls) < image_counter
    /\ Len(images) >= 2
    /\ SubSeq(success_ids(text_with_images), 1, 2) = <<extract_calls[1].id, extract_calls[3].id>>

\* a page of text blocks only: its content holds no empty line
plain_page(page) ==
    /\ page.tables = <<>>
    /\ \A k \in 1..Len(page.blocks) : page.blocks[k].type = 0

\* text.count(sub) from place k on: occurrences that do not overlap, from
\* the left
RECURSIVE count_from(_, _, _)
count_from(text, sub, k) ==
    IF k + Len(sub) - 1 > Len(text) THEN 0
    ELSE IF SubSeq(text, k, k + Len(sub) - 1) = sub
         THEN 1 + count_from(text, sub, k + Len(sub))
         ELSE count_from(text, sub, k + 1)

\* C15: for a document of N >= 1 pages the page loop inserts exactly N-1
\* page separators (two newlines): the end of every page but the last appends
\* one, the end of the last page appends nothing, and the loop ends after N
\* pages; the merged text of N pages of paragraphs holds exactly N-1 pairs
\* of newlines (counted without overlap) and does not end in one.
C15_PageSeparators ==
    /\ [][page_num' # page_num
            => /\ pc = "separator"
               /\ page_num' = page_num + 1
               /\ text_with_images' =
                    text_with_images
                        \o (IF page_num' < Len(doc) THEN PAGE_SEPARATOR ELSE <<>>)
               /\ pc' = (IF page_num' < Len(doc) THEN "page" ELSE "post")]_vars
    /\ []((pc = "post" /\ returned = <<>>)
            => /\ page_num = Len(doc)
               /\ (\A n \in 1..Len(doc) : plain_page(doc[n]))
                    => /\ count_from(text_with_images, PAGE_SEPARATOR, 1) = Len(doc) - 1
                       /\ ~endswith(text_with_images, PAGE_SEPARATOR))

\* two pages of one text block each, merged: one pair of newlines, between
\* the pages
C15_Witness ==
    /\ pc = "post"
    /\ returned = <<>>
    /\ Len(doc) = 2
    /\ plain_page(doc[1])
    /\ plain_page(doc[2])
    /\ text_with_images =
         block_text(doc[1].blocks[1].lines) \o PAGE_SEPARATOR
            \o block_text(doc[2].blocks[1].lines)

\* the marker line the flush rule gives for a buffer
flush_rule_marker(buffer) ==
    LET trimmed == [k \in 1..Len(buffer) |-> strip(buffer[k])]
    IN  IF Len(buffer) = 1
        THEN FORMULA_OPEN \o trimmed[1] \o FORMULA_CLOSE
        ELSE FORMULA_BLOCK_OPEN \o join(<<" ">>, trimmed) \o FORMULA_BLOCK_CLOSE

EXAMPLE_MARKER ==
    <<"[", "F", "O", "R", "M", "U", "L", "A", ":", " ", MATH_N, " ", "=", " ", "1", "0",
      " ", ":", "E", "N", "D", "_", "F", "O", "R", "M", "U", "L", "A", "]">>

\* C16: a flush of a buffer of 1 line appends the one line
\* [FORMULA: <trimmed text> :END_FORMULA], a flush of a buffer of 2 or more
\* lines the one line [FORMULA_BLOCK: <the trimmed lines joined by a single
\* space, in input order> :END_FORMULA_BLOCK], on a line that ends the run
\* and at the end of the text; a continuation line in the buffer counts as a
\* line; the text 'N = 10' (N the math italic capital) gives
\* [FORMULA: N = 10 :END_FORMULA].
C16_FlushRule ==
    [][/\ (pc = "mark_formulas" /\ formula_buffer # <<>> /\ formula_buffer' = <<>>)
            => result' = result \o <<flush_rule_marker(formula_buffer)>>
                            \o (IF i' = i + 1 THEN <<lines[i + 1]>> ELSE <<>>)
       /\ (pc = "mark_formulas" /\ lines = <<L_EXAMPLE>> /\ Len(returned') = 1)
            => returned'[1] = EXAMPLE_MARKER]_vars

\* the first pass over a line with blanks around it, a prose line, and an
\* equation followed by a continuation line: a formula of one line and a
\* block of the equation and the continuation
C16_Witness ==
    /\ Len(returned) = 1
    /\ lines = <<L_SYMBOL, L_PROSE, L_EQUATION, L_WHERE>>
    /\ result = << FORMULA_OPEN \o <<MATH_N>> \o FORMULA_CLOSE,
                   L_PROSE,
                   FORMULA_BLOCK_OPEN \o L_EQUATION \o <<" ">> \o L_WHERE
                        \o FORMULA_BLOCK_CLOSE >>

\* C17: a table buffer of 4 or more lines is emitted as a table whatever its
\* lines are, none of them numeric included: by the non-matching line that
\* ends it, which follows the table, and by the end of the text.
C17_FourLinesAccepted ==
    [][(pc = "detect_table_structure" /\ Len(table_buffer) >= 4)
        => /\ (i' = i + 1 /\ table_buffer' = <<>>)
                => result' = result \o table_block(table_buffer) \o <<lines[i + 1]>>
           /\ pc' # pc
                => result' = result \o table_block(table_buffer)]_vars

\* four name lines and a prose line, no numeric line among them: the names
\* came out as one table of four cells before the prose line
C17_Witness ==
    /\ pc = "done"
    /\ lines = <<L_NAME, L_NAME, L_NAME, L_NAME, L_PROSE>>
    /\ \A k \in 1..Len(lines) : ~is_numeric_entry(strip(lines[k]))
    /\ Len(result) = 7
    /\ result[1] = TABLE_START
    /\ \A k \in 2..5 : startswith(result[k], TABLE_CELL_OPEN)
    /\ result[6] = TABLE_END
    /\ result[7] = L_PROSE

\* the input lines the buffer was filled from: the lines just before the
\* current one
buffered_input ==
    SubSeq(lines, i - Len(table_buffer) + 1, i)

\* C18: lines that were buffered and then rejected (the flush adds no table
\* markers) are emitted as they were in the input, character for character,
\* leading and trailing whitespace included, followed by the non-matching
\* line as it was; the same holds for a buffer rejected at the end of the
\* text.
C18_RejectedLinesUnmodified ==
    [][(pc = "detect_table_structure" /\ table_buffer # <<>>)
        => /\ (/\ i' = i + 1
                /\ table_buffer' = <<>>
                /\ Len(result') = Len(result) + Len(table_buffer) + 1)
                => result' = result \o buffered_input \o <<lines[i + 1]>>
           /\ (/\ pc' # pc
                /\ Len(result') = Len(result) + Len(table_buffer))
                => result' = result \o buffered_input]_vars

\* a marker line of mark_formulas that holds the trimmed text of line l
is_marker_of(m, l) ==
    /\ \/ startswith(m, FORMULA_OPEN) /\ endswith(m, FORMULA_CLOSE)
       \/ startswith(m, FORMULA_BLOCK_OPEN) /\ endswith(m, FORMULA_BLOCK_CLOSE)
    /\ contains(m, strip(l))

\* C19: in mark_formulas, a line that is neither a formula line nor a
\* continuation line and finds the buffer non-empty makes the step append
\* the marker of the buffered block and right after it the line itself,
\* unmodified, and leaves the buffer empty; what was emitted before stays
\* where it is in every step of the pass, so the marker of a run stands
\* before every line that followed the run in the input.
C19_FlushBeforeLine ==
    [][pc = "mark_formulas"
        => /\ Len(result') >= Len(result)
           /\ SubSeq(result', 1, Len(result)) = result
           /\ (/\ i' = i + 1
                /\ formula_buffer # <<>>
                /\ ~is_formula_line(lines[i + 1])
                /\ ~is_continuation_line(lines[i + 1]))
                => /\ Len(result') = Len(result) + 2
                   /\ \A k \in 1..Len(formula_buffer) :
                        is_marker_of(result'[Len(result) + 1], formula_buffer[k])
                   /\ result'[Len(result) + 2] = lines[i + 1]
                   /\ formula_buffer' = <<>>]_vars

\* the first pass has just flushed a block of two lines on a prose line, with
\* a line still to come: the block marker and the prose line end the output
C19_Witness ==
    /\ pc = "mark_formulas"
    /\ returned = <<>>
    /\ i >= 3
    /\ i < Len(lines)
    /\ is_formula_line(lines[i - 2])
    /\ is_continuation_line(lines[i - 1])
    /\ lines[i] = L_PROSE
    /\ formula_buffer = <<>>
    /\ Len(result) >= 2
    /\ startswith(result[Len(result) - 1], FORMULA_BLOCK_OPEN)
    /\ result[Len(result)] = L_PROSE

\* a line that is no formula line, whose trimmed text begins with the two
\* ideographs of the connective and holds a math character
is_where_line(l) ==
    /\ ~is_formula_line(l)
    /\ Len(strip(l)) >= 2
    /\ strip(l)[1] = CJK_QI
    /\ strip(l)[2] = CJK_ZHONG
    /\ \E k \in 1..Len(strip(l)) : strip(l)[k] \in UNICODE_MATH_CHARS

\* C20: a line that is no formula line, begins with the connective and holds
\* a math character is pushed into the formula buffer, with nothing emitted,
\* when the buffer is non-empty; when the buffer is empty the line is emitted
\* unmodified and the buffer stays empty.
C20_ContinuationNeedsBuffer ==
    [][(pc = "mark_formulas" /\ i' = i + 1 /\ is_where_line(lines[i + 1]))
        => IF formula_buffer # <<>>
           THEN /\ formula_buffer' = Append(formula_buffer, lines[i + 1])
                /\ result' = result
           ELSE /\ formula_buffer' = <<>>
                /\ result' = result \o <<lines[i + 1]>>]_vars

\* the same line twice in a text: the first, with nothing buffered, was
\* emitted as it is; the second, after an equation, is in the buffer
C20_Witness ==
    /\ pc = "mark_formulas"
    /\ returned = <<>>
    /\ i = 3
    /\ lines[1] = L_WHERE
    /\ is_formula_line(lines[2])
    /\ lines[3] = L_WHERE
    /\ result = <<L_WHERE>>
    /\ formula_buffer = <<lines[2], L_WHERE>>

\* line k of ls is in a run: a formula line, or a continuation line right
\* after a line of a run
RECURSIVE in_run(_, _)
in_run(ls, k) ==
    \/ is_formula_line(ls[k])
    \/ is_continuation_line(ls[k]) /\ k > 1 /\ in_run(ls, k - 1)

\* the places where a maximal run starts
run_starts(ls) ==
    {k \in 1..Len(ls) : in_run(ls, k) /\ (k = 1 \/ ~in_run(ls, k - 1))}

is_formula_marker(l) ==
    startswith(l, FORMULA_OPEN) \/ startswith(l, FORMULA_BLOCK_OPEN)

marker_lines(ls) == {k \in 1..Len(ls) : is_formula_marker(ls[k])}

\* C21: mark_formulas terminates, with an empty buffer: every step of the
\* loop moves one line on, never past the last line (so that the next
\* iteration or the return can be taken), and the return leaves the buffer
\* empty; a buffer left by the last line is flushed
\* after the loop as one final marker holding every buffered line; for a
\* text without markers the number of marker lines of the output is the
\* number of maximal runs of formula and continuation lines of the input.
C21_FinalFlush ==
    [][/\ pc = "mark_formulas" => (i' = i + 1 \/ pc' # pc)
       /\ pc' = "mark_formulas" => i' <= Len(lines')
       /\ pc' \in {"post", "done"} => formula_buffer' = <<>>
       /\ (pc = "mark_formulas" /\ pc' # pc)
            => /\ formula_buffer # <<>>
                    => /\ Len(result') = Len(result) + 1
                       /\ SubSeq(result', 1, Len(result)) = result
                       /\ \A k \in 1..Len(formula_buffer) :
                            is_marker_of(result'[Len(result')], formula_buffer[k])
               /\ marker_lines(lines) = {}
                    => Cardinality(marker_lines(result')) = Cardinality(run_starts(lines))]_vars

\* the first pass returned from a text of two runs, the second of which ends
\* the text with a continuation line: two markers, the last a block
C21_Witness ==
    /\ Len(returned) = 1
    /\ pc = "post"
    /\ Len(lines) = 4
    /\ run_starts(lines) = {1, 3}
    /\ is_continuation_line(lines[4])
    /\ Len(result) = 3
    /\ startswith(result[1], FORMULA_OPEN)
    /\ startswith(result[3], FORMULA_BLOCK_OPEN)

\* ys is xs in ascending order of the top edge, xs with the same top edge in
\* the order they have in xs
is_stable_sort(ys, xs) ==
    /\ Len(ys) = Len(xs)
    /\ \E p \in [1..Len(xs) -> 1..Len(xs)] :
        /\ \A k \in 1..Len(xs) : ys[k] = xs[p[k]]
        /\ \A j, k \in 1..Len(xs) :
            j < k => \/ xs[p[j]].bbox[2] < xs[p[k]].bbox[2]
                     \/ xs[p[j]].bbox[2] = xs[p[k]].bbox[2] /\ p[j] < p[k]

\* C22: within a page the blocks are taken in ascending order of their top
\* edge, blocks with the same top edge in source order: the list the block
\* loop runs over is the stable sort of the page's blocks, step bi + 1 of the
\* loop appends the output of block bi + 1 of that list to the text, and an
\* image block takes the next figure id at its step.
C22_BlocksInTopOrder ==
    [][/\ pc' = "blocks"
            => is_stable_sort(sorted_blocks', doc[page_num' + 1].blocks)
       /\ (pc = "blocks" /\ bi' = bi + 1)
            => LET block == sorted_blocks[bi + 1]
                   id == img_id(image_counter + 1)
               IN  /\ sorted_blocks' = sorted_blocks
                   /\ IF block.type = 0
                      THEN /\ text_with_images' = text_with_images \o block_text(block.lines)
                           /\ image_counter' = image_counter
                      ELSE /\ text_with_images' \in
                                {text_with_images \o figure_marker(id),
                                 text_with_images \o failed_marker(id),
                                 text_with_images \o no_xref_marker(id)}
                           /\ image_counter' = image_counter + 1]_vars

\* a page whose blocks are not in order in the source, two of them with the
\* same top edge, is done: the figure of the first of the two, the text of
\* the second, then the figures of the lower blocks
C22_Witness ==
    /\ pc = "blocks"
    /\ page_num = 0
    /\ bi = Len(sorted_blocks)
    /\ bi = 4
    /\ sorted_blocks # doc[1].blocks
    /\ sorted_blocks[1].bbox[2] = sorted_blocks[2].bbox[2]
    /\ text_with_images = figure_marker(img_id(1)) \o block_text(sorted_blocks[2].lines)
                            \o figure_marker(img_id(2)) \o no_xref_marker(img_id(3))

\* the number of [TABLE_START] lines of a text
table_starts(text) ==
    LET ls == split_nl(text)
    IN  Cardinality({k \in 1..Len(ls) : ls[k] = TABLE_START})

\* C23: the native table blocks of a page are appended after all the text
\* and figure output of the page and before the page separator, in ascending
\* order of the tables' top edge: while a block of the page is left the step
\* is a block's and adds no [TABLE_START]; after the last block one step
\* appends the marker blocks of all tables of the page in that order, and the
\* step after it is the end of the page.
C23_TablesAfterBlocks ==
    [][/\ pc = "blocks"
            => IF bi < Len(sorted_blocks)
               THEN /\ bi' = bi + 1
                    /\ pc' = "blocks"
                    /\ table_starts(text_with_images')
                            = table_starts(text_with_images)
               ELSE /\ pc' = "separator"
                    /\ \E p \in [1..Len(page_tables) -> 1..Len(page_tables)] :
                        LET ts == [k \in 1..Len(page_tables) |-> page_tables[p[k]]]
                        IN  /\ is_stable_sort(ts, page_tables)
                            /\ text_with_images' = text_with_images \o tables_text(ts)
       /\ pc = "separator"
            => /\ page_num' = page_num + 1
               /\ table_starts(text_with_images')
                        = table_starts(text_with_images)]_vars

\* the second page has two tables, the lower one found first: the text of
\* the first page's block, its table, the separator, then the upper table
\* and the lower table of the second page
C23_Witness ==
    /\ pc = "separator"
    /\ page_num = 1
    /\ Len(doc[1].blocks) = 1
    /\ Len(extract_tables_with_pymupdf(doc[1])) = 1
    /\ Len(page_tables) = 2
    /\ page_tables[1].bbox[2] > page_tables[2].bbox[2]
    /\ text_with_images =
         block_text(doc[1].blocks[1].lines)
            \o tables_text(extract_tables_with_pymupdf(doc[1]))
            \o PAGE_SEPARATOR
            \o tables_text(<<page_tables[2], page_tables[1]>>)

EMPTY_CELL_LINE == <<"[", "T", "A", "B", "L", "E", "_", "C", "E", "L", "L", ":", " ", "]">>

\* the number of cells of the rows before row r
RECURSIVE cells_before(_, _)
cells_before(rows, r) ==
    IF r = 1 THEN 0 ELSE Len(rows[r - 1]) + cells_before(rows, r - 1)

\* the lines ls are [TABLE_START], for every row in order its [TABLE_ROW:i]
\* line, i from 0, and one [TABLE_CELL: ...] line per cell, then [TABLE_END]
is_marker_block(ls, rows) ==
    /\ Len(ls) = 2 + Len(rows) + cells_before(rows, Len(rows) + 1)
    /\ ls[1] = TABLE_START
    /\ ls[Len(ls)] = TABLE_END
    /\ \A r \in 1..Len(rows) :
        LET at == 1 + r + cells_before(rows, r)
        IN  /\ ls[at] = TABLE_ROW_OPEN \o str_int(r - 1) \o <<"]">>
            /\ \A c \in 1..Len(rows[r]) :
                LET l == ls[at + c]
                    cell == rows[r][c]
                IN  /\ startswith(l, TABLE_CELL_OPEN)
                    /\ l[Len(l)] = "]"
                    /\ (\A k \in 1..Len(cell) : cell[k] \in WHITESPACE) <=> l = EMPTY_CELL_LINE
    /\ Cardinality({k \in 1..Len(ls) : startswith(ls[k], TABLE_CELL_OPEN)})
            = cells_before(rows, Len(rows) + 1)

\* C24: for every table of a page, the text of format_table_as_markers read
\* line by line is [TABLE_START], then for each row in order [TABLE_ROW:i],
\* i counting from 0, followed by exactly one [TABLE_CELL: ...] line for each
\* cell of the row, [TABLE_CELL: ] for a cell that is empty or missing, then
\* [TABLE_END]; the [TABLE_CELL lines are as many as the cells.
C24_MarkerBlockFormat ==
    pc = "separator" =>
        \A t \in 1..Len(page_tables) :
            is_marker_block(split_nl(format_table_as_markers(page_tables[t])),
                            page_tables[t].rows)

\* the tables of a page were appended, one of them with a row of a cell with
\* text and three without: the text holds a row line of index 1 and a cell
\* line without text
C24_Witness ==
    /\ pc = "separator"
    /\ \E t \in 1..Len(page_tables) :
        /\ Len(page_tables[t].rows) = 2
        /\ Len(page_tables[t].rows[2]) = 4
        /\ page_tables[t].rows[2][2] = <<>>
    /\ \E k \in 1..(Len(FinalLines) - 1) :
        /\ FinalLines[k] = TABLE_ROW_OPEN \o <<"1", "]">>
        /\ FinalLines[k + 2] = EMPTY_CELL_LINE

\* a row with a cell that holds a character other than whitespace
has_text(row) ==
    \E c \in 1..Len(row) : \E k \in 1..Len(row[c]) : row[c][k] \notin WHITESPACE

\* the rows of a grid that have text, in order
rows_with_text(cell_data) ==
    LET at == {r \in 1..Len(cell_data) : has_text(cell_data[r])}
        RECURSIVE from(_)
        from(r) == IF r > Len(cell_data) THEN <<>>
                   ELSE (IF r \in at THEN <<cell_data[r]>> ELSE <<>>) \o from(r + 1)
    IN  from(1)

\* the [TABLE_ROW lines between line s of ls and the next [TABLE_END]
rows_of_span(ls, s) ==
    LET ends == {e \in (s + 1)..Len(ls) : ls[e] = TABLE_END}
        last == IF ends = {} THEN Len(ls) ELSE Min(ends)
    IN  Cardinality({k \in (s + 1)..last : startswith(ls[k], TABLE_ROW_OPEN)})

\* C25: every native table record has at least 2 rows and each of its rows
\* has a non-empty cell: the records of a page are the grids found on it, in
\* order, with the rows without text dropped, less the grids left with
\* fewer than 2 rows; no table span of the text the page loop writes has
\* fewer than 2 [TABLE_ROW lines.
C25_NativeTablesHaveTwoRows ==
    (pc \in {"blocks", "separator", "page", "post"} /\ returned = <<>>) =>
        /\ \A t \in 1..Len(page_tables) :
            /\ Len(page_tables[t].rows) >= 2
            /\ \A r \in 1..Len(page_tables[t].rows) : has_text(page_tables[t].rows[r])
        /\ pc \in {"blocks", "separator"} =>
            LET grids == doc[page_num + 1].tables
                kept == {g \in 1..Len(grids) : Len(rows_with_text(grids[g].cell_data)) >= 2}
            IN  IF doc[page_num + 1].find_tables_raises THEN page_tables = <<>>
                ELSE /\ Len(page_tables) = Cardinality(kept)
                     /\ \A t \in 1..Len(page_tables) :
                        \E g \in kept :
                            /\ Cardinality({h \in kept : h < g}) = t - 1
                            /\ page_tables[t].rows = rows_with_text(grids[g].cell_data)
                            /\ page_tables[t].bbox = grids[g].bbox
        /\ \A s \in 1..Len(FinalLines) :
            FinalLines[s] = TABLE_START => rows_of_span(FinalLines, s) >= 2

\* a page of three grids: one left with a single row is gone, one lost a
\* row without text and is a record of two rows; both records are in the
\* text
C25_Witness ==
    /\ pc = "separator"
    /\ Len(doc[page_num + 1].tables) = 3
    /\ Len(page_tables) = 2
    /\ \E g \in 1..3 :
        /\ Len(doc[page_num + 1].tables[g].cell_data) = 3
        /\ page_tables[1].bbox = doc[page_num + 1].tables[g].bbox
        /\ Len(page_tables[1].rows) = 2
    /\ table_starts(text_with_images) >= 2

\* C26: in detect_table_structure a line that is a cell candidate and no
\* multi-column row, met with the buffer empty, is buffered, and table mode
\* entered, if and only if a next line exists and is a cell candidate;
\* otherwise (no next line, or a next line that is no cell candidate, a
\* multi-column row included) it is emitted as a plain line and the buffer
\* stays empty.
C26_LookAhead ==
    [][(/\ pc = "detect_table_structure"
        /\ i' = i + 1
        /\ table_buffer = <<>>
        /\ is_table_cell_candidate(lines[i + 1])
        /\ ~looks_like_multi_col_row(strip(lines[i + 1])))
       => IF i + 2 <= Len(lines) /\ is_table_cell_candidate(lines[i + 2])
          THEN /\ table_buffer' = <<strip(lines[i + 1])>>
               /\ in_potential_table' = TRUE
               /\ result' = result
          ELSE /\ table_buffer' = <<>>
               /\ in_potential_table' = FALSE
               /\ result' = result \o <<lines[i + 1]>>]_vars

\* a name line before a multi-column row that is no cell candidate: the name
\* was emitted as it is, blank included, and the row started the buffer; the
\* number line after the row is a candidate
C26_Witness ==
    /\ pc = "detect_table_structure"
    /\ i = 2
    /\ Len(lines) >= 3
    /\ lines[1] = L_NAME
    /\ lines[2] = L_WIDE_ROW
    /\ ~is_table_cell_candidate(lines[2])
    /\ looks_like_multi_col_row(lines[2])
    /\ is_table_cell_candidate(lines[3])
    /\ result = <<L_NAME>>
    /\ table_buffer = <<L_WIDE_ROW>>

\* C27: in detect_table_structure, at the start of every iteration of the
\* loop and after it, in_potential_table is true if and only if the buffer
\* is non-empty; a step that emits its line (a non-matching line) leaves the
\* buffer empty and the flag false, whichever way it flushes.
C27_FlagIffBuffer ==
    [][pc' = "detect_table_structure"
        => /\ in_potential_table' <=> (table_buffer' # <<>>)
           /\ (pc = "detect_table_structure" /\ Len(result') > Len(result))
                => /\ table_buffer' = <<>>
                   /\ in_potential_table' = FALSE
                   /\ result'[Len(result')] = lines[i + 1]]_vars

\* a row flushed alone by a prose line, then two lines buffered: the flag
\* went down with the buffer of one line and is up again
C27_Witness ==
    /\ pc = "detect_table_structure"
    /\ i = 4
    /\ looks_like_multi_col_row(lines[1])
    /\ lines[2] = L_PROSE
    /\ result = <<lines[1], L_PROSE>>
    /\ Len(table_buffer) = 2
    /\ in_potential_table

is_table_bracket(l) == l = TABLE_START \/ l = TABLE_END
is_content_line(l) == ~is_table_bracket(l)

\* [TABLE_CELL: x] read as x, any other line as it is
unwrap_cell(l) ==
    IF startswith(l, TABLE_CELL_OPEN) /\ l[Len(l)] = "]"
    THEN SubSeq(l, Len(TABLE_CELL_OPEN) + 1, Len(l) - 1)
    ELSE l

\* the output without its [TABLE_START] and [TABLE_END] lines, the cell
\* lines unwrapped
unwrap_tables(ls) == MapList(SelectList(ls, is_content_line), unwrap_cell)

\* C28 as stated: for every input of detect_table_structure, the output
\* without its [TABLE_START] and [TABLE_END] lines and with every
\* [TABLE_CELL: x] read as x is the sequence of the input lines, one for
\* one and in order, up to the stripping of buffered lines.
C28_UnwrapGivesInput ==
    (pc = "done" /\ Len(returned) = 2) =>
        LET out == unwrap_tables(result)
        IN  /\ Len(out) = Len(lines)
            /\ \A k \in 1..Len(lines) : out[k] = lines[k] \/ out[k] = strip(lines[k])

\* the lines a buffer is wrapped into
wrapped(buffer) ==
    [k \in 1..(Len(buffer) + 2) |->
        IF k = 1 THEN TABLE_START
        ELSE IF k = Len(buffer) + 2 THEN TABLE_END
        ELSE TABLE_CELL_OPEN \o buffer[k - 1] \o <<"]">>]

\* what holds of detect_table_structure for every input, marker lines
\* included: the buffer holds the stripped text of the input lines just
\* before the current one, in order; a step either appends the stripped
\* current line to the buffer and emits nothing, or emits the buffer, as it
\* is or wrapped, and then the current line unchanged; the return emits the
\* rest of the buffer in one of the two ways
LinesConserved ==
    [][/\ pc' = "detect_table_structure"
            => /\ Len(table_buffer') <= i'
               /\ \A k \in 1..Len(table_buffer') :
                    table_buffer'[k] = strip(lines'[i' - Len(table_buffer') + k])
       /\ (pc = "detect_table_structure" /\ i' = i + 1)
            => \/ /\ table_buffer' = Append(table_buffer, strip(lines[i + 1]))
                  /\ result' = result
               \/ /\ table_buffer' = <<>>
                  /\ result' \in {result \o table_buffer \o <<lines[i + 1]>>,
                                  result \o wrapped(table_buffer) \o <<lines[i + 1]>>}
                  /\ table_buffer = <<>> => result' = result \o <<lines[i + 1]>>
       /\ (pc = "detect_table_structure" /\ pc' # pc)
            => /\ i = Len(lines)
               /\ result' \in {result \o table_buffer, result \o wrapped(table_buffer)}
               /\ table_buffer = <<>> => result' = result
               /\ text_with_images' = join(<<NL>>, result')]_vars

\* the lines a buffer goes out as: none for an empty buffer, else the one
\* marker of its trimmed lines
marker_of_buffer(buffer) ==
    IF buffer = <<>> THEN <<>> ELSE <<flush_rule_marker(buffer)>>

\* C29: mark_formulas neither drops, duplicates nor reorders lines: the
\* buffer holds the input lines just before the current one, in order; a
\* step either puts the current line into the buffer, which it does only
\* for a formula line or for a continuation line met with a non-empty
\* buffer, or emits the marker of the buffer, holding the trimmed text of
\* each buffered line once and in order, and then the current line
\* unchanged; the return emits the marker of the rest of the buffer, and the
\* text returned is the lines emitted, joined by newlines.
C29_FormulaLinesConserved ==
    [][/\ pc' = "mark_formulas"
            => /\ Len(formula_buffer') <= i'
               /\ \A k \in 1..Len(formula_buffer') :
                    formula_buffer'[k] = lines'[i' - Len(formula_buffer') + k]
       /\ (pc = "mark_formulas" /\ i' = i + 1)
            => IF \/ is_formula_line(lines[i + 1])
                  \/ is_continuation_line(lines[i + 1]) /\ formula_buffer # <<>>
               THEN /\ formula_buffer' = Append(formula_buffer, lines[i + 1])
                    /\ result' = result
               ELSE /\ formula_buffer' = <<>>
                    /\ result' = result \o marker_of_buffer(formula_buffer)
                                    \o <<lines[i + 1]>>
       /\ (pc = "mark_formulas" /\ pc' # pc)
            => /\ i = Len(lines)
               /\ result' = result \o marker_of_buffer(formula_buffer)
               /\ text_with_images' = join(<<NL>>, result')]_vars

\* the first pass over an empty line, an equation, a continuation line and
\* a prose line returned the empty line, one block of the two, and the prose
\* line
C29_Witness ==
    /\ Len(returned) = 1
    /\ pc = "post"
    /\ lines = <<L_BLANK, L_EQUATION, L_WHERE, L_PROSE>>
    /\ returned[1] = join(<<NL>>, << L_BLANK,
                                     FORMULA_BLOCK_OPEN \o L_EQUATION \o <<" ">> \o L_WHERE
                                        \o FORMULA_BLOCK_CLOSE,
                                     L_PROSE >>)

\* the figure line of the k-th image block, from what became of the block
figure_line(k) ==
    LET id == img_id(k)
        tried == {c \in 1..Len(extract_calls) : extract_calls[c].id = id}
    IN  IF tried = {} THEN FIGURE_OPEN \o id \o NO_XREF_CLOSE
        ELSE IF \E c \in tried : extract_calls[c].outcome = "ok"
        THEN FIGURE_OPEN \o id \o <<"]">>
        ELSE FIGURE_OPEN \o id \o EXTRACTION_FAILED_CLOSE

holds_figure_token(l) == contains(l, FIGURE_OPEN)

\* C30: the figure markers pass the two post-processing passes untouched:
\* after the page loop, between the passes and in the result the lines that
\* hold [FIGURE: are the figure lines of the image blocks, one line each,
\* unchanged and in order, none inside a table span or a formula marker; no
\* figure line is a formula line, a continuation line, a multi-column row
\* or a cell candidate, so that each of them takes the branch of the passes
\* that flushes the buffer and emits the line.
C30_FigureMarkersSurvive ==
    pc \in {"post", "done"} =>
        /\ SelectList(FinalLines, holds_figure_token)
                = [k \in 1..image_counter |-> figure_line(k)]
        /\ \A k \in 1..Len(FinalLines) :
            holds_figure_token(FinalLines[k]) => ~in_table_span(FinalLines, k)
        /\ \A k \in 1..image_counter :
            /\ ~is_formula_line(figure_line(k))
            /\ ~is_continuation_line(figure_line(k))
            /\ ~looks_like_multi_col_row(strip(figure_line(k)))
            /\ ~is_table_cell_candidate(figure_line(k))

\* the result of a document with a figure of each kind and a page with a
\* formula and a table: the three figure lines, a formula marker and a table
\* span
C30_Witness ==
    /\ pc = "done"
    /\ image_counter >= 3
    /\ \E a, b, c \in 1..image_counter :
        /\ figure_line(a) = FIGURE_OPEN \o img_id(a) \o <<"]">>
        /\ figure_line(b) = FIGURE_OPEN \o img_id(b) \o EXTRACTION_FAILED_CLOSE
        /\ figure_line(c) = FIGURE_OPEN \o img_id(c) \o NO_XREF_CLOSE
    /\ \E k \in 1..Len(FinalLines) : FinalLines[k] = TABLE_START
    /\ \E k \in 1..Len(FinalLines) : is_formula_marker(FinalLines[k])

====
